---------------------------- MODULE Spec2Model ----------------------------
(***************************************************************************)
(* The style token rewriter of apps/mobile: update-styles.py ("v1") and    *)
(* update-styles-v2.py ("v2").                                             *)
(*                                                                         *)
(* A file's content is a sequence of source LINES.  Every line is a record *)
(* standing for one fixed piece of source text (its trailing newline       *)
(* included), so that the regular expressions of the scripts can be        *)
(* evaluated on it exactly:                                                *)
(*   k = "open"     const styles = StyleSheet.create({                     *)
(*   k = "openx"    const other = StyleSheet.create({    (another name)    *)
(*   k = "close"    });                                                    *)
(*   k = "rbclose"  }});          (a rule closed on the line of the end)   *)
(*   k = "lb"       name: {                                                *)
(*   k = "rb"       },                                                     *)
(*   k = "decl"     <p>:<w blanks><v><e>   a property p, w blanks after    *)
(*                  the colon, the value text v (a sequence of atoms: a    *)
(*                  maximal run of digits, a token, a tail such as ".5")   *)
(*                  and the end e ("," or "" when a newline follows)       *)
(*   k = "elem"     <p name="x" SIZE e    an element of tag p whose size   *)
(*                  attribute is v[1]: "braces" size={n}, "eqrun" the word *)
(*                  size followed by n "=" characters, "cond"              *)
(*                  size={deviceInfo.isTablet ? scale(n+2) : scale(n)};    *)
(*                  e is "/>" or ">"                                       *)
(*   k = "text"     any other text, holding n times deviceInfo.isTablet    *)
(***************************************************************************)
EXTENDS Integers, Sequences, FiniteSets, TLC

\* Op(v), with v evaluated once: TLC passes the arguments of an operator
\* unevaluated, and a chain of substitutions would evaluate the first of them
\* once for every use further down.
Apply(Op(_), v) == CHOOSE r \in {Op(x) : x \in {v}} : TRUE

Decl(p, w, v, e) == [k |-> "decl", p |-> p, w |-> w, v |-> v, e |-> e, n |-> 0]

Elem(tag, form, size, e) ==
    [k |-> "elem", p |-> tag, w |-> 0, v |-> <<form>>, e |-> e, n |-> size]

Text(n) == [k |-> "text", p |-> "", w |-> 0, v |-> <<>>, e |-> "", n |-> n]

Mark(kind) == [k |-> kind, p |-> "", w |-> 0, v |-> <<>>, e |-> "", n |-> 0]

Open == Mark("open")

OpenX == Mark("openx")

Close == Mark("close")

RbClose == Mark("rbclose")

Lb == Mark("lb")

Rb == Mark("rb")

(***************************************************************************)
(* The lookup tables.  v1 keys them by strings, v2 by integers that the    *)
(* f-string of the pattern formats in decimal.                             *)
(***************************************************************************)
SPACING_MAP_v1 ==
    [x \in {"4", "8", "12", "16", "20", "24", "32", "40"} |->
        CASE x = "4" -> "spacing.xs"
          [] x = "8" -> "spacing.sm"
          [] x = "12" -> "spacing.md"
          [] x = "16" -> "spacing.lg"
          [] x = "20" -> "spacing.xl"
          [] x = "24" -> "spacing.xxl"
          [] x = "32" -> "spacing.xxxl"
          [] x = "40" -> "spacing.xxxl"]

FONT_SIZE_MAP_v1 ==
    [x \in {"12", "13", "14", "15", "16", "17", "18", "20", "22", "24", "26",
            "28", "30", "32", "34", "36"} |->
        CASE x = "12" -> "typography.caption"
          [] x \in {"13", "14"} -> "typography.body2"
          [] x \in {"15", "16"} -> "typography.body1"
          [] x = "17" -> "typography.subtitle1"
          [] x = "18" -> "typography.h6"
          [] x \in {"20", "22"} -> "typography.h5"
          [] x \in {"24", "26"} -> "typography.h4"
          [] x \in {"28", "30"} -> "typography.h3"
          [] x \in {"32", "34"} -> "typography.h2"
          [] x = "36" -> "typography.h1"]

SpacingKeys_v2 == <<4, 8, 12, 16, 20, 24, 32, 40>>

SPACING_MAP_v2 ==
    [x \in {4, 8, 12, 16, 20, 24, 32, 40} |->
        CASE x = 4 -> "spacing.xs"
          [] x = 8 -> "spacing.sm"
          [] x = 12 -> "spacing.md"
          [] x = 16 -> "spacing.lg"
          [] x = 20 -> "spacing.xl"
          [] x = 24 -> "spacing.xxl"
          [] x = 32 -> "spacing.xxxl"
          [] x = 40 -> "spacing.xxxl"]

FontKeys_v2 == <<12, 13, 14, 16, 18, 20, 24, 28, 32, 36>>

FONT_SIZE_MAP_v2 ==
    [x \in {12, 13, 14, 16, 18, 20, 24, 28, 32, 36} |->
        CASE x = 12 -> "typography.caption"
          [] x \in {13, 14} -> "typography.body2"
          [] x = 16 -> "typography.body1"
          [] x = 18 -> "typography.h6"
          [] x = 20 -> "typography.h5"
          [] x = 24 -> "typography.h4"
          [] x = 28 -> "typography.h3"
          [] x = 32 -> "typography.h2"
          [] x = 36 -> "typography.h1"]

\* The property names of the first pattern of v1 (gap has a pattern of its own).
SpacingProps_v1 ==
    {"padding", "margin", "paddingHorizontal", "paddingVertical",
     "marginHorizontal", "marginVertical", "paddingTop", "paddingBottom",
     "paddingLeft", "paddingRight", "marginTop", "marginBottom", "marginLeft",
     "marginRight"}

\* The property names of the spacing pattern of v2.
SpacingProps_v2 == SpacingProps_v1 \cup {"gap"}

(***************************************************************************)
(* Text predicates the patterns rest on.                                   *)
(***************************************************************************)
\* The atoms that are runs of decimal digits: what (\d+) matches.
DigitAtoms ==
    {"4", "04", "6", "8", "10", "12", "13", "14", "15", "16", "17", "18", "20",
     "22", "24", "26", "28", "30", "32", "34", "36", "40", "400"}

\* The atoms that begin with a character that is not a word character.
NonWordTails == {".5"}

CondRadius12 == "deviceInfo.isTablet ? 14 : 12"

CondRadius10 == "deviceInfo.isTablet ? 12 : 10"

\* \b after the digits that start value v: the end of the value, or a tail
\* that begins with a non-word character (as the "." of 4.5 does).
BoundaryAfter(v) == Len(v) = 1 \/ (Len(v) > 1 /\ v[2] \in NonWordTails)

RECURSIVE CountAtoms(_, _)
CountAtoms(v, S) ==
    IF v = <<>> THEN 0
    ELSE (IF Head(v) \in S THEN 1 ELSE 0) + CountAtoms(Tail(v), S)

\* line.count('deviceInfo.isTablet')
LineMarkers(l) ==
    CASE l.k = "decl" -> CountAtoms(l.v, {CondRadius12, CondRadius10})
      [] l.k = "elem" -> IF l.v[1] = "cond" THEN 1 ELSE 0
      [] l.k = "text" -> l.n
      [] OTHER -> 0

RECURSIVE MarkerCount(_)
MarkerCount(c) ==
    IF c = <<>> THEN 0 ELSE LineMarkers(Head(c)) + MarkerCount(Tail(c))

\* Variant: the marker test lets every file through.
HasStyleSheet_any(c) == TRUE

\* 'StyleSheet.create' in content
HasStyleSheet(c) == \E i \in 1..Len(c) : c[i].k \in {"open", "openx"}

(***************************************************************************)
(* update-styles-v2.py: update_styles_in_stylesheet and update_icon_sizes. *)
(***************************************************************************)
\* One re.sub of the spacing loop, for key px, seen on one line:
\*   \b(padding|...|gap):\s*{px}\b   ->   \1: {responsive}
sub_spacing_v2(l, px) ==
    IF /\ l.k = "decl"
       /\ l.p \in SpacingProps_v2
       /\ Len(l.v) >= 1
       /\ l.v[1] = ToString(px)
       /\ BoundaryAfter(l.v)
    THEN [l EXCEPT !.w = 1, !.v = <<SPACING_MAP_v2[px]>> \o Tail(l.v)]
    ELSE l

\* One re.sub of the fontSize loop:  \bfontSize:\s*{px}\b -> fontSize: {responsive}
sub_font_v2(l, px) ==
    IF /\ l.k = "decl"
       /\ l.p = "fontSize"
       /\ Len(l.v) >= 1
       /\ l.v[1] = ToString(px)
       /\ BoundaryAfter(l.v)
    THEN [l EXCEPT !.w = 1, !.v = <<FONT_SIZE_MAP_v2[px]>> \o Tail(l.v)]
    ELSE l

\* \bborderRadius:\s*{lit}\b -> borderRadius: {cond}
sub_radius_v2(l, lit, cond) ==
    IF /\ l.k = "decl"
       /\ l.p = "borderRadius"
       /\ Len(l.v) >= 1
       /\ l.v[1] = lit
       /\ BoundaryAfter(l.v)
    THEN [l EXCEPT !.w = 1, !.v = <<cond>> \o Tail(l.v)]
    ELSE l

RECURSIVE spacing_loop_v2(_, _)
spacing_loop_v2(l, keys) ==
    IF keys = <<>> THEN l
    ELSE Apply(LAMBDA x : spacing_loop_v2(x, Tail(keys)),
               sub_spacing_v2(l, Head(keys)))

RECURSIVE font_loop_v2(_, _)
font_loop_v2(l, keys) ==
    IF keys = <<>> THEN l
    ELSE Apply(LAMBDA x : font_loop_v2(x, Tail(keys)),
               sub_font_v2(l, Head(keys)))

\* Variant: process_stylesheet without its borderRadius substitutions.
process_line_v2_noradius(l) ==
    Apply(LAMBDA l1 : font_loop_v2(l1, FontKeys_v2),
          spacing_loop_v2(l, SpacingKeys_v2))

\* What process_stylesheet makes of one line of the matched group.
process_line_v2(l) ==
    Apply(LAMBDA l3 : sub_radius_v2(l3, "10", CondRadius10),
      Apply(LAMBDA l2 : sub_radius_v2(l2, "12", CondRadius12),
        Apply(LAMBDA l1 : font_loop_v2(l1, FontKeys_v2),
          spacing_loop_v2(l, SpacingKeys_v2))))

\* process_stylesheet: the substitutions on the text of group 1.
process_stylesheet(lines) == [i \in 1..Len(lines) |-> process_line_v2(lines[i])]

(***************************************************************************)
(* The pattern  const styles = StyleSheet\.create\({ G \}\);  with         *)
(* G = [^}]+(?:{[^}]+}[^}]+)*.  Every "}" before the end must close a "{"  *)
(* met since the "}" before it, and text must follow it.  st is "A" when   *)
(* no "{" is open since the last "}", and "B" when one is.  block_end is   *)
(* the index of the line that ends the match that starts after the "open"  *)
(* line before j, or 0 when there is no match.                             *)
(***************************************************************************)
RECURSIVE block_end(_, _, _)
block_end(c, j, st) ==
    IF j > Len(c) THEN 0
    ELSE CASE c[j].k = "close" -> j
           [] c[j].k = "rbclose" -> 0
           [] c[j].k = "rb" -> IF st = "B" THEN block_end(c, j + 1, "A") ELSE 0
           [] c[j].k \in {"lb", "open", "openx"} -> block_end(c, j + 1, "B")
           [] c[j].k = "elem" /\ c[j].v[1] \in {"braces", "cond"} ->
                block_end(c, j + 1, "A")
           [] OTHER -> block_end(c, j + 1, st)

\* re.sub(pattern, process_stylesheet, content) from line i on.
RECURSIVE sub_blocks(_, _)
sub_blocks(c, i) ==
    IF i > Len(c) THEN <<>>
    ELSE IF c[i].k = "open" /\ block_end(c, i + 1, "A") > 0
         THEN LET j == block_end(c, i + 1, "A")
              IN  <<c[i]>> \o process_stylesheet(SubSeq(c, i + 1, j - 1))
                      \o <<c[j]>> \o sub_blocks(c, j + 1)
         ELSE <<c[i]>> \o sub_blocks(c, i + 1)

\* Variant: the substitutions run over the whole content, not over the
\* matched blocks.
update_styles_in_stylesheet_global(c, regex_error) ==
    IF regex_error THEN c ELSE process_stylesheet(c)

\* update_styles_in_stylesheet; regex_error: the re.sub raised, which the
\* function catches itself, returning the content it was given.
update_styles_in_stylesheet(c, regex_error) ==
    IF regex_error THEN c ELSE sub_blocks(c, 1)

\* <Ionicons\s+([^>]*)size={N}([^>]*)/>: in the pattern "={N}" is "=" repeated
\* N times, so it is the word size followed by N "=" that is matched.
sub_icon_v2(l, size) ==
    IF /\ l.k = "elem"
       /\ l.p = "Ionicons"
       /\ l.e = "/>"
       /\ l.v[1] = "eqrun"
       /\ l.n = size
    THEN [l EXCEPT !.v = <<"cond">>]
    ELSE l

update_icon_sizes(c) ==
    [i \in 1..Len(c) |->
        Apply(LAMBDA l1 : sub_icon_v2(l1, 20), sub_icon_v2(c[i], 24))]

(***************************************************************************)
(* update-styles.py: add_tablet_specific_styles.                           *)
(***************************************************************************)
\* Variant: 16 is scaled to the literal 20 instead of being replaced by a
\* token.
update_spacing_property_scaled(value) ==
    IF value = "16" THEN "20"
    ELSE IF value \in DigitAtoms /\ value \in DOMAIN SPACING_MAP_v1
         THEN SPACING_MAP_v1[value] ELSE value

update_spacing_property(value) ==
    IF value \in DigitAtoms /\ value \in DOMAIN SPACING_MAP_v1
    THEN SPACING_MAP_v1[value] ELSE value

update_font_size(value) ==
    IF value \in DigitAtoms /\ value \in DOMAIN FONT_SIZE_MAP_v1
    THEN FONT_SIZE_MAP_v1[value] ELSE value

\* (padding|margin|...): (\d+),  with replace_spacing
sub_spacing_v1(l) ==
    IF /\ l.k = "decl"
       /\ l.p \in SpacingProps_v1
       /\ l.w = 1
       /\ Len(l.v) = 1
       /\ l.v[1] \in DigitAtoms
       /\ l.e = ","
    THEN [l EXCEPT !.v = <<update_spacing_property(l.v[1])>>]
    ELSE l

\* fontSize: (\d+),  with replace_font_size
sub_font_v1(l) ==
    IF /\ l.k = "decl"
       /\ l.p = "fontSize"
       /\ l.w = 1
       /\ Len(l.v) = 1
       /\ l.v[1] \in DigitAtoms
       /\ l.e = ","
    THEN [l EXCEPT !.v = <<update_font_size(l.v[1])>>]
    ELSE l

\* gap: (\d+),  matches the line.  Its replacement function is replace_spacing,
\* which reads match.group(2): the pattern has one group, so the call raises
\* IndexError ("no such group").
gap_match_v1(l) ==
    /\ l.k = "decl"
    /\ l.p = "gap"
    /\ l.w = 1
    /\ Len(l.v) = 1
    /\ l.v[1] \in DigitAtoms
    /\ l.e = ","

\* borderRadius: 12,  ->  borderRadius: deviceInfo.isTablet ? 14 : 12,
sub_radius_v1(l) ==
    IF /\ l.k = "decl"
       /\ l.p = "borderRadius"
       /\ l.w = 1
       /\ l.v = <<"12">>
       /\ l.e = ","
    THEN [l EXCEPT !.v = <<CondRadius12>>]
    ELSE l

\* size={N}: "=" repeated N times after the word size, in any element.
sub_icon_v1(l, size) ==
    IF l.k = "elem" /\ l.v[1] = "eqrun" /\ l.n = size
    THEN [l EXCEPT !.v = <<"cond">>]
    ELSE l

\* The borderRadius rule and the icon-size rule of v1, each over a content.
radius_rule_v1(c) == [i \in 1..Len(c) |-> sub_radius_v1(c[i])]

icon_rule_v1(c) ==
    [i \in 1..Len(c) |->
        Apply(LAMBDA l1 : sub_icon_v1(l1, 20), sub_icon_v1(c[i], 24))]

\* The substitutions of add_tablet_specific_styles that return, in their order.
tablet_line_v1(l) ==
    Apply(LAMBDA l4 : sub_icon_v1(l4, 20),
      Apply(LAMBDA l3 : sub_icon_v1(l3, 24),
        Apply(sub_radius_v1, Apply(sub_font_v1, sub_spacing_v1(l)))))

\* raised: the gap substitution raised; content: what is returned otherwise.
add_tablet_specific_styles(c) ==
    [raised |-> \E i \in 1..Len(c) :
                    Apply(gap_match_v1, Apply(sub_font_v1, sub_spacing_v1(c[i]))),
     content |-> [i \in 1..Len(c) |-> tablet_line_v1(c[i])]]

(***************************************************************************)
(* process_file of both scripts.  fault is what the environment does to    *)
(* this call: "read" (open or decode fails), "regex" (the re.sub of        *)
(* update_styles_in_stylesheet raises), "transform" (another exception of  *)
(* the rewrite), "open" (open for writing fails, the file is left as it    *)
(* was), "write" (the write fails after open has truncated the file: the   *)
(* first k lines of the new content are on disk).                          *)
(***************************************************************************)
Threshold_v1 == 5

Threshold_v2 == 10

Threshold(script) == IF script = "v1" THEN Threshold_v1 ELSE Threshold_v2

\* Variant: the gate compares with >= in place of >.
already_converted_ge(script, c) == MarkerCount(c) >= Threshold(script)

\* content.count('deviceInfo.isTablet') > threshold
already_converted(script, c) == MarkerCount(c) > Threshold(script)

\* The rewrite of a file that passed the gate: [raised, rx, content].
rewrite(script, c, fault) ==
    IF script = "v1"
    THEN LET r == add_tablet_specific_styles(c)
         IN  [raised |-> r.raised \/ fault = "transform", rx |-> FALSE,
              content |-> r.content]
    ELSE [raised |-> fault = "transform", rx |-> fault = "regex",
          content |-> Apply(update_icon_sizes,
                            update_styles_in_stylesheet(c, fault = "regex"))]

\* Variant: the file is written whether or not the content changed.
write_always(new, original) == TRUE

\* if content != original_content: open, write, return True
write_needed(new, original) == new # original

Result(ret, disk, passed, opened, exc, rx, new) ==
    [called |-> TRUE, ret |-> ret, disk |-> disk, passed |-> passed,
     opened |-> opened, exc |-> exc, rx |-> rx, new |-> new, escaped |-> FALSE]

\* Variant: the exception leaves process_file.
handler_reraise(r) == [r EXCEPT !.ret = FALSE, !.escaped = TRUE]

\* except Exception: print, return False
handler(r) == [r EXCEPT !.ret = FALSE, !.escaped = FALSE]

\* The end of process_file for a file that passed the gate, r being what the
\* rewrite came to: compare, open, write, return.
write_back(c, r, fault, k) ==
    IF r.raised
    THEN handler(Result(FALSE, c, TRUE, FALSE, "transform", r.rx, c))
    ELSE IF write_needed(r.content, c)
    THEN CASE fault = "open" ->
                handler(Result(FALSE, c, TRUE, TRUE, "open", r.rx, r.content))
           [] fault = "write" ->
                handler(Result(FALSE, SubSeq(r.content, 1, k), TRUE, TRUE,
                               "write", r.rx, r.content))
           [] OTHER -> Result(TRUE, r.content, TRUE, TRUE, "", r.rx, r.content)
    ELSE Result(FALSE, c, TRUE, FALSE, "", r.rx, r.content)

process_file(script, c, fault, k) ==
    IF fault = "read"
    THEN handler(Result(FALSE, c, FALSE, FALSE, "read", FALSE, c))
    ELSE IF ~HasStyleSheet(c)
    THEN Result(FALSE, c, FALSE, FALSE, "", FALSE, c)
    ELSE IF already_converted(script, c)
    THEN Result(FALSE, c, FALSE, FALSE, "", FALSE, c)
    ELSE Apply(LAMBDA r : write_back(c, r, fault, k), rewrite(script, c, fault))

(***************************************************************************)
(* main: the walk over the candidate files, and the summary.               *)
(***************************************************************************)
VARIABLES
    script,   \* "v1" (update-styles.py) or "v2" (update-styles-v2.py)
    walk,     \* the paths the two globs return, screens first
    disk,     \* disk[i]: the content of the file walk[i]
    start,    \* the disk when the current run of main began
    run,      \* 1, or 2 when the script is run a second time
    pc,       \* "loop", "done" (summary printed) or "crashed"
    idx,      \* the position of the loop in walk
    count,    \* main's count
    log,      \* log[i]: what process_file did for walk[i] in this run
    count1,   \* the count the first run reported (run = 2)
    err1      \* whether a call of the first run met an error (run = 2)

\* clockify_automation.py: main, initialize and run_daily_tracking.
VARIABLES
    ck_pc,        \* "off" (not started), "init", "top" (head of the while loop),
                  \* "build" (building tasks), "gather" (awaiting
                  \* asyncio.gather), "wait" (asleep until the next batch) or
                  \* "crashed" (an exception left main)
    ck_hour,      \* current_hour of the iteration
    ck_setup,     \* what initialize and setup_projects did: [connected,
                  \* fetched, existing, posted, created]
    ck_projects,  \* self.projects: project name -> id
    ck_tasks,     \* the coroutines of the batch: [team, member, st], st being
                  \* "pending", "sent" (POST sent, not answered), "created"
                  \* (201), "rejected" (another status), "raised" (the HTTP
                  \* call raised) or "noproject" (returned before the POST)
    ck_running    \* the task whose coroutine the event loop is executing, or 0

\* start_timer.py, test_backend_timer.py and stop_timer.py, run one at a time.
VARIABLES
    tm_on,        \* whether the timer scripts are the program that runs
    tm_file,      \* current_timer.txt: <<>> when absent, else <<entry id>>
    tm_entries,   \* the time entries of the workspace, by id: [project, running]
    tm_last       \* what the last script run did

\* auto-build.py.
VARIABLES
    ab_pc,        \* "off", "init" (before Popen), "init_wait" (in communicate),
                  \* "build" (before subprocess.run), "build_wait",
                  \* "fallback_wait" (in process2.communicate), "status",
                  \* "status_wait", "end"
    ab_procs,     \* the state of each process: "none", "running", "exited" or
                  \* "killed"
    ab_expired    \* the steps whose timeout has fired

rewriter_vars ==
    <<script, walk, disk, start, run, pc, idx, count, log, count1, err1>>

ck_vars == <<ck_pc, ck_hour, ck_setup, ck_projects, ck_tasks, ck_running>>

tm_vars == <<tm_on, tm_file, tm_entries, tm_last>>

ab_vars == <<ab_pc, ab_procs, ab_expired>>

vars == <<rewriter_vars, ck_vars, tm_vars, ab_vars>>

NoSetup ==
    [connected |-> FALSE, fetched |-> FALSE, existing |-> {}, posted |-> {},
     created |-> {}]

\* clockify_automation.py is not running.
CkOff ==
    /\ ck_pc = "off" /\ ck_hour = 0 /\ ck_setup = NoSetup
    /\ ck_projects = <<>> /\ ck_tasks = <<>> /\ ck_running = 0

\* No script has run yet.
NoRun ==
    [script |-> "none", list |-> "none", posted |-> FALSE, project |-> "none",
     status |-> "none", patched |-> <<>>, was_running |-> FALSE]

\* The timer scripts are not the program that runs.
TmOff ==
    tm_on = FALSE /\ tm_file = <<>> /\ tm_entries = <<>> /\ tm_last = NoRun

\* The processes of auto-build.py: bash and the eas of its pipeline for the
\* two Popen calls, eas alone for the two subprocess.run calls.
Procs ==
    {"init_bash", "init_eas", "build_eas", "fallback_bash", "fallback_eas",
     "status_eas"}

AbNone == [p \in Procs |-> "none"]

\* auto-build.py is not running.
AbOff == ab_pc = "off" /\ ab_procs = AbNone /\ ab_expired = {}

Scripts == {"v1", "v2"}

Faults == {"none", "read", "regex", "transform", "open", "write"}

Bases == {"Home.tsx", "ResponsiveLayout.tsx", "responsive.tsx"}

Path(d, b) == [dir |-> d, base |-> b]

\* The paths the globs can return, in the order the model walks them.
PathOrder ==
    <<Path("screens", "Home.tsx"), Path("screens", "ResponsiveLayout.tsx"),
      Path("screens", "responsive.tsx"), Path("components", "Home.tsx"),
      Path("components", "ResponsiveLayout.tsx"),
      Path("components", "responsive.tsx")>>

Paths == {PathOrder[i] : i \in 1..Len(PathOrder)}

\* v1: the screens loop skips nothing; the components loop skips a path that
\* ends with 'ResponsiveLayout.tsx'.  v2: one loop, skipping a path that
\* contains 'ResponsiveLayout.tsx' or 'responsive.ts'.
denylisted(s, path) ==
    IF s = "v1"
    THEN path.dir = "components" /\ path.base = "ResponsiveLayout.tsx"
    ELSE path.base = "ResponsiveLayout.tsx" \/ path.base = "responsive.tsx"

NotCalled ==
    [called |-> FALSE, ret |-> FALSE, disk |-> <<>>, passed |-> FALSE,
     opened |-> FALSE, exc |-> "", rx |-> FALSE, new |-> <<>>,
     escaped |-> FALSE]

\* for filepath in ...: if <denylisted>: continue
MainSkip ==
    /\ pc = "loop"
    /\ idx <= Len(walk)
    /\ denylisted(script, walk[idx])
    /\ idx' = idx + 1
    /\ UNCHANGED <<script, walk, disk, start, run, pc, count, log, count1, err1>>
    /\ UNCHANGED <<ck_vars, tm_vars, ab_vars>>

\* The faults a call can meet: "regex" is v2's, and a failed write leaves
\* the first k lines of the new content.
FaultOk(s, c, fault, k) ==
    /\ fault = "regex" => s = "v2"
    /\ IF fault = "write" THEN k < Len(c) ELSE k = 0

\* Variant: a file whose call met an error is tried again.
MainProcess_retry ==
    /\ pc = "loop"
    /\ idx <= Len(walk)
    /\ ~denylisted(script, walk[idx])
    /\ \E fault \in Faults, k \in 0..Len(disk[idx]) :
          /\ FaultOk(script, disk[idx], fault, k)
          /\ \E r \in {process_file(script, disk[idx], fault, k)} :
                /\ disk' = [disk EXCEPT ![idx] = r.disk]
                /\ log' = [log EXCEPT ![idx] = r]
                /\ count' = IF r.ret THEN count + 1 ELSE count
                /\ pc' = IF r.escaped THEN "crashed" ELSE pc
                /\ idx' = IF r.exc # "" THEN idx ELSE idx + 1
    /\ UNCHANGED <<script, walk, start, run, count1, err1>>
    /\ UNCHANGED <<ck_vars, tm_vars, ab_vars>>

\* Variant: every call reads the first file of the walk and writes what it
\* makes of it to the file of the loop.
MainProcess_carry ==
    /\ pc = "loop"
    /\ idx <= Len(walk)
    /\ ~denylisted(script, walk[idx])
    /\ \E fault \in Faults, k \in 0..Len(disk[1]) :
          /\ FaultOk(script, disk[1], fault, k)
          /\ \E r \in {process_file(script, disk[1], fault, k)} :
                /\ disk' = [disk EXCEPT ![idx] = r.disk]
                /\ log' = [log EXCEPT ![idx] = r]
                /\ count' = IF r.ret THEN count + 1 ELSE count
                /\ pc' = IF r.escaped THEN "crashed" ELSE pc
    /\ idx' = idx + 1
    /\ UNCHANGED <<script, walk, start, run, count1, err1>>
    /\ UNCHANGED <<ck_vars, tm_vars, ab_vars>>

\* for filepath in ...: if process_file(filepath): count += 1
MainProcess ==
    /\ pc = "loop"
    /\ idx <= Len(walk)
    /\ ~denylisted(script, walk[idx])
    /\ \E fault \in Faults, k \in 0..Len(disk[idx]) :
          /\ FaultOk(script, disk[idx], fault, k)
          /\ \E r \in {process_file(script, disk[idx], fault, k)} :
                /\ disk' = [disk EXCEPT ![idx] = r.disk]
                /\ log' = [log EXCEPT ![idx] = r]
                /\ count' = IF r.ret THEN count + 1 ELSE count
                /\ pc' = IF r.escaped THEN "crashed" ELSE pc
    /\ idx' = idx + 1
    /\ UNCHANGED <<script, walk, start, run, count1, err1>>
    /\ UNCHANGED <<ck_vars, tm_vars, ab_vars>>

\* v2: print(f"Processing {len(all_files)} files..."), before the loop and
\* before the denylist is applied.  v1 prints no such total.
printed_processing == Len(walk)

\* print("===== SUMMARY ====="); print(f"Updated {count} files ...")
MainSummary ==
    /\ pc = "loop"
    /\ idx > Len(walk)
    /\ pc' = "done"
    /\ UNCHANGED <<script, walk, disk, start, run, idx, count, log, count1, err1>>
    /\ UNCHANGED <<ck_vars, tm_vars, ab_vars>>

\* The same script is started again over the same files.
Rerun ==
    /\ pc = "done"
    /\ run = 1
    /\ err1' = \E i \in 1..Len(walk) : log[i].exc # "" \/ log[i].rx
    /\ run' = 2
    /\ start' = disk
    /\ count1' = count
    /\ count' = 0
    /\ idx' = 1
    /\ pc' = "loop"
    /\ log' = [i \in 1..Len(walk) |-> NotCalled]
    /\ UNCHANGED <<script, walk, disk>>
    /\ UNCHANGED <<ck_vars, tm_vars, ab_vars>>

(***************************************************************************)
(* The inputs.                                                             *)
(***************************************************************************)
MaxLen == 3

MaxFiles == 2

P16 == Decl("padding", 1, <<"16">>, ",")

P6 == Decl("padding", 1, <<"6">>, ",")

P45 == Decl("padding", 1, <<"4", ".5">>, ",")

P400 == Decl("marginTop", 0, <<"400">>, "")

G8 == Decl("gap", 1, <<"8">>, ",")

F24 == Decl("fontSize", 1, <<"24">>, ",")

R12 == Decl("borderRadius", 1, <<"12">>, ",")

Icon24 == Elem("Ionicons", "eqrun", 24, "/>")

\* The lines a file of the one-file runs is made of.
Alphabet == {Open, Close, Lb, Rb, P16, P6, P45, G8, F24, R12, Icon24, Text(5), Text(6)}

RECURSIVE SeqsUpTo(_, _)
SeqsUpTo(S, n) ==
    IF n = 0 THEN {<<>>}
    ELSE LET T == SeqsUpTo(S, n - 1)
         IN  T \cup {Append(t, x) : t \in {u \in T : Len(u) = n - 1}, x \in S}

\* The file of the example 'padding: 16, fontSize: 24, borderRadius: 12', and
\* a file with rewritable declarations before, in and after its style block.
Scenario == <<Open, P16, F24, R12, Close>>

Mixed == <<P16, Open, P16, Close, F24>>

\* A block with literals that are not keys of the tables.
Wide == <<Open, P400, P6, Close>>

\* A block with a nested rule that holds an element the icon pattern matches,
\* followed by a radius declaration.
Nested == <<Open, Lb, Icon24, Rb, R12, Close>>

\* Elements after the style block: size={24} on Ionicons, size={20} on
\* another element, and a size that is neither 20 nor 24.
Icons ==
    <<Open, Close, Elem("Ionicons", "braces", 24, "/>"),
      Elem("MaterialIcons", "braces", 20, "/>"),
      Elem("Ionicons", "braces", 16, "/>")>>

Contents ==
    SeqsUpTo(Alphabet, MaxLen) \cup {Scenario, Mixed, Wide, Nested, Icons}

\* The contents of the files of a batch.
BatchContents ==
    {<<Text(0)>>, <<Open, P16, Close>>, <<Open, G8, Close>>, <<Open, P6, Close>>}

WalkOf(S) == SelectSeq(PathOrder, LAMBDA p : p \in S)

InitRun ==
    /\ script \in Scripts
    /\ start = disk
    /\ run = 1
    /\ pc = "loop"
    /\ idx = 1
    /\ count = 0
    /\ count1 = 0
    /\ err1 = FALSE
    /\ log = [i \in 1..Len(walk) |-> NotCalled]
    /\ CkOff /\ TmOff /\ AbOff

\* A batch of at most MaxFiles files.
Init ==
    /\ \E S \in SUBSET Paths : Cardinality(S) <= MaxFiles /\ walk = WalkOf(S)
    /\ disk \in [1..Len(walk) -> BatchContents]
    /\ InitRun

\* One file, of any content.
InitFile ==
    /\ walk = <<Path("screens", "Home.tsx")>>
    /\ disk \in [1..1 -> Contents]
    /\ InitRun

Next == MainSkip \/ MainProcess \/ MainSummary

NextFile == MainProcess \/ MainSummary \/ Rerun

Spec == Init /\ [][Next]_vars

FairSpec == Spec /\ WF_vars(Next)

SpecFile == InitFile /\ [][NextFile]_vars

(***************************************************************************)
(* clockify_automation.py: main awaits initialize and then                 *)
(* run_daily_tracking on one asyncio event loop.  create_time_entry is a   *)
(* coroutine without an await: once the event loop starts it, it runs to   *)
(* its return (or to the exception of requests.post, a blocking call)      *)
(* before the loop runs anything else.                                     *)
(***************************************************************************)
\* The keys of self.teams, in the order the batch loop visits them.
TeamOrder == <<"backend", "frontend", "platform", "quality">>

TeamSet == {TeamOrder[i] : i \in 1..Len(TeamOrder)}

TeamIndex(t) == CHOOSE i \in 1..Len(TeamOrder) : TeamOrder[i] = t

\* self.teams[team]["members"]
members ==
    [t \in TeamSet |->
        CASE t = "backend" ->
               <<"Senior API Architect", "Senior Database Engineer",
                 "Senior Real-time Engineer", "Senior DevOps Engineer",
                 "Senior Security Engineer", "Senior Queue Engineer",
                 "Senior Cache Engineer">>
          [] t = "frontend" ->
               <<"Senior React Architect", "Senior UI Engineer",
                 "Senior Mobile Engineer", "Senior State Management Engineer",
                 "Senior Performance Engineer", "Senior PWA Engineer",
                 "Senior WebRTC Frontend Engineer">>
          [] t = "platform" ->
               <<"Senior Web3 Engineer", "Senior Search Engineer",
                 "Senior Media Engineer", "Senior Analytics Engineer",
                 "Senior Monitoring Engineer", "Senior CDN Engineer",
                 "Senior Integration Engineer">>
          [] OTHER ->
               <<"Senior QA Engineer", "Senior Moderation Engineer",
                 "Senior Notification Engineer", "Senior Forum Engineer",
                 "Senior Onboarding Engineer", "Senior Documentation Engineer",
                 "Senior Load Testing Engineer">>]

\* project_names of setup_projects, and project_map of create_time_entry.
project_names ==
    <<"CRYB Backend Development", "CRYB Frontend Development",
      "CRYB Platform Infrastructure", "CRYB Quality & Features">>

ProjectNameSet == {project_names[i] : i \in 1..Len(project_names)}

NameIndex(n) == CHOOSE i \in 1..Len(project_names) : project_names[i] = n

project_map == [t \in TeamSet |-> project_names[TeamIndex(t)]]

\* The id of a project found in the fetched list, and of a project created.
FoundId(n) == <<"found", n>>

CreatedId(n) == <<"created", n>>

\* Variant: a project is created for every name, found or not.
to_create_all(existing) == ProjectNameSet

\* for project_name in project_names: if project_name in existing_names ...
\* else: the names a create POST is sent for.
to_create(existing) == {n \in ProjectNameSet : n \notin existing}

\* self.projects after the loop over the names that was run as far as the
\* names in posted, created being the names whose POST returned 201.
projects_after(existing, posted, created) ==
    [n \in (existing \ posted) \cup created |->
        IF n \in created THEN CreatedId(n) ELSE FoundId(n)]

\* initialize and setup_projects.  GET /user: 200, another status (print,
\* nothing else), or the call raises, which ends main.  GET projects: the
\* same.  Then one create POST for each name to create, in order: 201 puts
\* the id in self.projects, another status only prints, an exception ends
\* main (raised_at is then the name whose POST raised).
initialize ==
    /\ ck_pc = "init"
    /\ \E user \in {"200", "other", "raised"},
          list \in {"200", "other", "raised"},
          existing \in SUBSET ProjectNameSet :
          \E created \in SUBSET to_create(existing),
             raised_at \in to_create(existing) \cup {"none"} :
             CASE user = "raised" ->
                    /\ list = "200" /\ existing = {} /\ created = {}
                    /\ raised_at = "none"
                    /\ ck_setup' = NoSetup
                    /\ ck_projects' = <<>>
                    /\ ck_pc' = "crashed"
               [] user = "other" ->
                    /\ list = "200" /\ existing = {} /\ created = {}
                    /\ raised_at = "none"
                    /\ ck_setup' = NoSetup
                    /\ ck_projects' = <<>>
                    /\ ck_pc' = "top"
               [] user = "200" /\ list # "200" ->
                    /\ existing = {} /\ created = {} /\ raised_at = "none"
                    /\ ck_setup' = [NoSetup EXCEPT !.connected = TRUE]
                    /\ ck_projects' = <<>>
                    /\ ck_pc' = IF list = "raised" THEN "crashed" ELSE "top"
               [] OTHER ->
                    LET posted ==
                            IF raised_at = "none" THEN to_create(existing)
                            ELSE {n \in to_create(existing) :
                                    NameIndex(n) <= NameIndex(raised_at)}
                    IN  /\ created \subseteq posted \ {raised_at}
                        /\ ck_setup' =
                              [connected |-> TRUE, fetched |-> TRUE,
                               existing |-> existing, posted |-> posted,
                               created |-> created]
                        /\ ck_projects' =
                              projects_after(existing, posted, created)
                        /\ ck_pc' = IF raised_at = "none" THEN "top"
                                    ELSE "crashed"
    /\ UNCHANGED <<ck_hour, ck_tasks, ck_running>>
    /\ UNCHANGED <<rewriter_vars, tm_vars, ab_vars>>

\* The hours datetime.now().hour is drawn from.
Hours == {0, 5, 6, 13, 19, 20, 21, 23}

\* if 6 <= current_hour <= 20
working_hours(h) == 6 <= h /\ h <= 20

\* while True: current_hour = datetime.now().hour; in working hours
\* tasks = [] and the batch is built; otherwise print and go to the sleep.
run_daily_tracking_top ==
    /\ ck_pc = "top"
    /\ \E h \in Hours :
          /\ ck_hour' = h
          /\ IF working_hours(h)
             THEN ck_tasks' = <<>> /\ ck_pc' = "build"
             ELSE ck_tasks' = ck_tasks /\ ck_pc' = "wait"
    /\ UNCHANGED <<ck_setup, ck_projects, ck_running>>
    /\ UNCHANGED <<rewriter_vars, tm_vars, ab_vars>>

Coroutine(t, m) == [team |-> t, member |-> m, st |-> "pending"]

Min(a, b) == IF a <= b THEN a ELSE b

\* The draws of random.sample the model follows: the members from offset o.
MaxOffset == 1

\* Variant: draws with replacement, the same member k times.
sample_repeated(pop, k, o) == [j \in 1..k |-> pop[(o % Len(pop)) + 1]]

\* random.sample(pop, k): k members of pop, no member twice.
sample(pop, k, o) == [j \in 1..k |-> pop[((o + j - 1) % Len(pop)) + 1]]

\* The team the batch loop is at, from the tasks built so far.
NextTeam ==
    IF ck_tasks = <<>> THEN 1 ELSE TeamIndex(ck_tasks[Len(ck_tasks)].team) + 1

\* One pass of 'for team_name, team_data in self.teams.items()':
\* active_members = random.sample(members, k = random.randint(3, min(5, n)))
\* and one create_time_entry coroutine appended for each of them.
build_team ==
    /\ ck_pc = "build"
    /\ NextTeam <= Len(TeamOrder)
    /\ LET t == TeamOrder[NextTeam]
       IN  \E k \in 3..Min(5, Len(members[t])), o \in 0..MaxOffset :
              \E active_members \in {sample(members[t], k, o)} :
                 ck_tasks' = ck_tasks \o
                     [j \in 1..k |-> Coroutine(t, active_members[j])]
    /\ ck_pc' = IF NextTeam = Len(TeamOrder) THEN "gather" ELSE "build"
    /\ UNCHANGED <<ck_hour, ck_setup, ck_projects, ck_running>>
    /\ UNCHANGED <<rewriter_vars, tm_vars, ab_vars>>

\* The coroutines of a batch that the model follows when it runs them.
MaxTasks == 3

\* The coroutines followed: some of a batch, team by team, the j-th of a team
\* being for the j-th member of that team.
Batches ==
    {b \in SeqsUpTo(TeamSet, MaxTasks) :
        /\ b # <<>>
        /\ \A i \in 1..(Len(b) - 1) : TeamIndex(b[i]) <= TeamIndex(b[i + 1])}

\* The whole batch loop in one step, for the coroutines followed.
build_tasks ==
    /\ ck_pc = "build"
    /\ \E b \in Batches :
          ck_tasks' =
              [i \in 1..Len(b) |->
                  Coroutine(b[i],
                      members[b[i]][Cardinality({j \in 1..i : b[j] = b[i]})])]
    /\ ck_pc' = "gather"
    /\ UNCHANGED <<ck_hour, ck_setup, ck_projects, ck_running>>
    /\ UNCHANGED <<rewriter_vars, tm_vars, ab_vars>>

\* Variant: the POST is sent whether or not the team has a project.
has_project_any(team) == TRUE

\* project_id = self.projects.get(project_map[team]); if not project_id: return
has_project(team) == project_map[team] \in DOMAIN ck_projects

\* The event loop starts the next coroutine of gather: create_time_entry up
\* to requests.post, or to its return when the team has no project.
create_time_entry_post ==
    /\ ck_pc = "gather"
    /\ ck_running = 0
    /\ \E i \in 1..Len(ck_tasks) :
          /\ ck_tasks[i].st = "pending"
          /\ \A j \in 1..(i - 1) : ck_tasks[j].st # "pending"
          /\ IF has_project(ck_tasks[i].team)
             THEN /\ ck_tasks' = [ck_tasks EXCEPT ![i].st = "sent"]
                  /\ ck_running' = i
             ELSE /\ ck_tasks' = [ck_tasks EXCEPT ![i].st = "noproject"]
                  /\ ck_running' = 0
    /\ UNCHANGED <<ck_pc, ck_hour, ck_setup, ck_projects>>
    /\ UNCHANGED <<rewriter_vars, tm_vars, ab_vars>>

\* requests.post returns 201, returns another status, or raises.
create_time_entry_answer ==
    /\ ck_running # 0
    /\ \E out \in {"created", "rejected", "raised"} :
          ck_tasks' = [ck_tasks EXCEPT ![ck_running].st = out]
    /\ ck_running' = 0
    /\ UNCHANGED <<ck_pc, ck_hour, ck_setup, ck_projects>>
    /\ UNCHANGED <<rewriter_vars, tm_vars, ab_vars>>

\* asyncio.gather is done: it returns, or raises the exception of a coroutine
\* into run_daily_tracking, which nothing catches.
gather_returns ==
    /\ ck_pc = "gather"
    /\ ck_running = 0
    /\ \A i \in 1..Len(ck_tasks) : ck_tasks[i].st \notin {"pending", "sent"}
    /\ ck_pc' = IF \E i \in 1..Len(ck_tasks) : ck_tasks[i].st = "raised"
                THEN "crashed" ELSE "wait"
    /\ UNCHANGED <<ck_hour, ck_setup, ck_projects, ck_tasks, ck_running>>
    /\ UNCHANGED <<rewriter_vars, tm_vars, ab_vars>>

\* await asyncio.sleep(wait_time) returns.
sleep_returns ==
    /\ ck_pc = "wait"
    /\ ck_pc' = "top"
    /\ UNCHANGED <<ck_hour, ck_setup, ck_projects, ck_tasks, ck_running>>
    /\ UNCHANGED <<rewriter_vars, tm_vars, ab_vars>>

\* The rewriter scripts are not running.
RewriterOff ==
    /\ script = "v2"
    /\ walk = <<>> /\ disk = <<>> /\ start = <<>> /\ log = <<>>
    /\ run = 1 /\ pc = "off" /\ idx = 1
    /\ count = 0 /\ count1 = 0 /\ err1 = FALSE

CkInit ==
    /\ ck_pc = "init"
    /\ ck_hour = 0
    /\ ck_setup = NoSetup
    /\ ck_projects = <<>>
    /\ ck_tasks = <<>>
    /\ ck_running = 0
    /\ RewriterOff /\ TmOff /\ AbOff

CkNext ==
    \/ initialize
    \/ run_daily_tracking_top
    \/ build_tasks
    \/ create_time_entry_post
    \/ create_time_entry_answer
    \/ gather_returns
    \/ sleep_returns

CkSpec == CkInit /\ [][CkNext]_vars

\* The event loop keeps running and every HTTP call ends.
CkFairSpec == CkSpec /\ WF_vars(CkNext)

\* The batch loop alone, team by team with the samples of random.sample,
\* from the head of the while loop with every project found.
CkBatchInit ==
    /\ ck_pc = "top"
    /\ ck_hour = 0
    /\ ck_setup = [connected |-> TRUE, fetched |-> TRUE,
                   existing |-> ProjectNameSet, posted |-> {}, created |-> {}]
    /\ ck_projects = projects_after(ProjectNameSet, {}, {})
    /\ ck_tasks = <<>>
    /\ ck_running = 0
    /\ RewriterOff /\ TmOff /\ AbOff

CkBatchNext == run_daily_tracking_top \/ build_team \/ sleep_returns

CkBatchSpec == CkBatchInit /\ [][CkBatchNext]_vars

(***************************************************************************)
(* start_timer.py, test_backend_timer.py and stop_timer.py.  Each is a     *)
(* script that runs from its first line to its last; a step of the model   *)
(* is one run of one of them.  The workspace's time entries are the        *)
(* server's: entry i is tm_entries[i].                                     *)
(***************************************************************************)
\* The time entries the model lets the scripts create.
MaxEntries == 2

\* The project the scripts look for in the fetched list.
TheProject == "THE REAL CRYB"

\* project_id = None; if the list was fetched with 200, the id of the first
\* project named 'THE REAL CRYB', if there is one.
project_id(list) == IF list = "found" THEN TheProject ELSE "none"

\* One run of a start script.  GET projects answers 200 with the project in
\* the list ("found"), 200 without it ("missing"), another status ("failed"),
\* or raises, which ends the script.  Then the POST is sent with
\* projectId = project_id, whatever it is; on 201 the entry exists and its
\* id is written to current_timer.txt.
start_run(name) ==
    /\ tm_on
    /\ Len(tm_entries) < MaxEntries
    /\ \E list \in {"found", "missing", "failed", "raised"},
          status \in {"201", "other", "raised"} :
          IF list = "raised"
          THEN /\ status = "raised"
               /\ tm_last' = [NoRun EXCEPT !.script = name, !.list = list]
               /\ UNCHANGED <<tm_file, tm_entries>>
          ELSE /\ tm_last' = [NoRun EXCEPT !.script = name, !.list = list,
                                           !.posted = TRUE,
                                           !.project = project_id(list),
                                           !.status = status]
               /\ IF status = "201"
                  THEN /\ tm_entries' =
                            Append(tm_entries, [project |-> project_id(list),
                                                running |-> TRUE])
                       /\ tm_file' = <<Len(tm_entries) + 1>>
                  ELSE UNCHANGED <<tm_file, tm_entries>>
    /\ UNCHANGED tm_on
    /\ UNCHANGED <<rewriter_vars, ck_vars, ab_vars>>

start_timer == start_run("start_timer")

test_backend_timer == start_run("test_backend_timer")

\* One run of stop_timer.py.  Without current_timer.txt: FileNotFoundError,
\* 'No running timer found'.  Otherwise the PATCH with the end time is sent
\* for the id in the file; the server ends the entry when it answers 200.
\* The file is left as it is.
stop_timer ==
    /\ tm_on
    /\ IF tm_file = <<>>
       THEN /\ tm_last' = [NoRun EXCEPT !.script = "stop_timer"]
            /\ UNCHANGED tm_entries
       ELSE \E status \in {"200", "other", "raised"} :
               LET entry_id == tm_file[1]
               IN  /\ tm_last' =
                         [NoRun EXCEPT !.script = "stop_timer",
                                       !.patched = <<entry_id>>,
                                       !.was_running =
                                           tm_entries[entry_id].running,
                                       !.status = status]
                   /\ tm_entries' =
                         IF status = "200"
                         THEN [tm_entries EXCEPT ![entry_id].running = FALSE]
                         ELSE tm_entries
    /\ UNCHANGED <<tm_on, tm_file>>
    /\ UNCHANGED <<rewriter_vars, ck_vars, ab_vars>>

TmInit ==
    /\ tm_on = TRUE
    /\ tm_file = <<>>
    /\ tm_entries = <<>>
    /\ tm_last = NoRun
    /\ RewriterOff /\ CkOff /\ AbOff

TmNext == start_timer \/ test_backend_timer \/ stop_timer

TmSpec == TmInit /\ [][TmNext]_vars

(***************************************************************************)
(* apps/mobile/auto-build.py: the init step, the build step with its       *)
(* fallback, and the status step.                                          *)
(***************************************************************************)
\* process = subprocess.Popen(['bash', '-c', 'echo ... | eas init'], ...):
\* bash and the eas of its pipeline run, or Popen raises and the handler of
\* Exception prints; then the script goes on to the build step.
ab_init_popen ==
    /\ ab_pc = "init"
    /\ \/ /\ ab_procs' = [ab_procs EXCEPT !["init_bash"] = "running",
                                          !["init_eas"] = "running"]
          /\ ab_pc' = "init_wait"
       \/ /\ ab_procs' = ab_procs
          /\ ab_pc' = "build"
    /\ UNCHANGED ab_expired
    /\ UNCHANGED <<rewriter_vars, ck_vars, tm_vars>>

\* process.communicate(timeout=30) returns, the pipeline having ended, or
\* raises TimeoutExpired: process.kill() kills bash, not the eas it started.
ab_init_communicate ==
    /\ ab_pc = "init_wait"
    /\ \/ /\ ab_procs' = [ab_procs EXCEPT !["init_bash"] = "exited",
                                          !["init_eas"] = "exited"]
          /\ ab_expired' = ab_expired
       \/ /\ ab_procs' = [ab_procs EXCEPT !["init_bash"] = "killed"]
          /\ ab_expired' = ab_expired \cup {"init"}
    /\ ab_pc' = "build"
    /\ UNCHANGED <<rewriter_vars, ck_vars, tm_vars>>

\* result = subprocess.run(['eas', 'build', ...], timeout=60) starts eas, or
\* raises (no eas on the path) and the handler of Exception prints.
ab_build_run ==
    /\ ab_pc = "build"
    /\ \/ /\ ab_procs' = [ab_procs EXCEPT !["build_eas"] = "running"]
          /\ ab_pc' = "build_wait"
       \/ /\ ab_procs' = ab_procs
          /\ ab_pc' = "status"
    /\ UNCHANGED ab_expired
    /\ UNCHANGED <<rewriter_vars, ck_vars, tm_vars>>

\* subprocess.run ends: return code 0 (or another one and Popen raises: the
\* handler of Exception prints); another return code, and process2 is
\* started with Popen; or the timeout, at which run kills eas, waits for it
\* and raises TimeoutExpired, caught by the build step's handler.
ab_build_returns ==
    /\ ab_pc = "build_wait"
    /\ \/ /\ ab_procs' = [ab_procs EXCEPT !["build_eas"] = "exited"]
          /\ ab_expired' = ab_expired
          /\ ab_pc' = "status"
       \/ /\ ab_procs' = [ab_procs EXCEPT !["build_eas"] = "exited",
                                          !["fallback_bash"] = "running",
                                          !["fallback_eas"] = "running"]
          /\ ab_expired' = ab_expired
          /\ ab_pc' = "fallback_wait"
       \/ /\ ab_procs' = [ab_procs EXCEPT !["build_eas"] = "killed"]
          /\ ab_expired' = ab_expired \cup {"build"}
          /\ ab_pc' = "status"
    /\ UNCHANGED <<rewriter_vars, ck_vars, tm_vars>>

\* process2.communicate(timeout=60) returns, or raises TimeoutExpired: the
\* handler of the build step prints 'Build command timed out' and nothing
\* else.
ab_fallback_communicate ==
    /\ ab_pc = "fallback_wait"
    /\ \/ /\ ab_procs' = [ab_procs EXCEPT !["fallback_bash"] = "exited",
                                          !["fallback_eas"] = "exited"]
          /\ ab_expired' = ab_expired
       \/ /\ ab_procs' = ab_procs
          /\ ab_expired' = ab_expired \cup {"fallback"}
    /\ ab_pc' = "status"
    /\ UNCHANGED <<rewriter_vars, ck_vars, tm_vars>>

\* subprocess.run(['eas', 'build:list', ...]), without a timeout, starts eas,
\* or raises and the bare except passes: the script ends.
ab_status_run ==
    /\ ab_pc = "status"
    /\ \/ /\ ab_procs' = [ab_procs EXCEPT !["status_eas"] = "running"]
          /\ ab_pc' = "status_wait"
       \/ /\ ab_procs' = ab_procs
          /\ ab_pc' = "end"
    /\ UNCHANGED ab_expired
    /\ UNCHANGED <<rewriter_vars, ck_vars, tm_vars>>

\* eas build:list ends, its output is printed, and the script ends.
ab_status_returns ==
    /\ ab_pc = "status_wait"
    /\ ab_procs' = [ab_procs EXCEPT !["status_eas"] = "exited"]
    /\ ab_pc' = "end"
    /\ UNCHANGED ab_expired
    /\ UNCHANGED <<rewriter_vars, ck_vars, tm_vars>>

\* The processes the script is waiting for at ab_pc.
AwaitedAt(at) ==
    CASE at = "init_wait" -> {"init_bash", "init_eas"}
      [] at = "build_wait" -> {"build_eas"}
      [] at = "fallback_wait" -> {"fallback_bash", "fallback_eas"}
      [] at = "status_wait" -> {"status_eas"}
      [] OTHER -> {}

\* A process the script no longer waits for ends by itself.
ab_process_exits ==
    /\ ab_pc # "off"
    /\ \E p \in Procs \ AwaitedAt(ab_pc) :
          /\ ab_procs[p] = "running"
          /\ ab_procs' = [ab_procs EXCEPT ![p] = "exited"]
    /\ UNCHANGED <<ab_pc, ab_expired>>
    /\ UNCHANGED <<rewriter_vars, ck_vars, tm_vars>>

AbInit ==
    /\ ab_pc = "init"
    /\ ab_procs = AbNone
    /\ ab_expired = {}
    /\ RewriterOff /\ CkOff /\ TmOff

AbNext ==
    \/ ab_init_popen
    \/ ab_init_communicate
    \/ ab_build_run
    \/ ab_build_returns
    \/ ab_fallback_communicate
    \/ ab_status_run
    \/ ab_status_returns
    \/ ab_process_exits

AbSpec == AbInit /\ [][AbNext]_vars

(***************************************************************************)
(* What the claims speak of.                                               *)
(***************************************************************************)
Files == 1..Len(walk)

\* The content process_file read for walk[i] in this run.
ReadOf(i) == start[i]

NoMarkerLine(c) == \A j \in 1..Len(c) : c[j].k \notin {"open", "openx"}

Raised(i) == log[i].called /\ log[i].exc # ""

C2_ReachesSummary == <>(pc = "done")

\* The summary is printed after a run in which every call failed.
C2_Witness ==
    /\ pc = "done"
    /\ Len(walk) = 2
    /\ \A i \in Files : Raised(i)
    /\ \E i \in Files : log[i].exc = "write"

(***************************************************************************)
(* C3.  process_file opens the file for writing if and only if the         *)
(* rewritten content differs from the content it read.  It returns True    *)
(* only in that case, and in that case it does return True and the new     *)
(* content is on disk unless opening or writing raised (the case of C1).   *)
(* When the rewrite changes nothing the file is not opened, keeps its      *)
(* content, and False is returned.                                         *)
(***************************************************************************)
C3_WriteIffChanged ==
    \A i \in Files :
        log[i].called =>
            /\ log[i].opened <=> (log[i].new # ReadOf(i))
            /\ log[i].ret => (log[i].opened /\ disk[i] = log[i].new)
            /\ (log[i].opened /\ log[i].exc = "") => log[i].ret
            /\ ~log[i].opened => (disk[i] = ReadOf(i) /\ ~log[i].ret)

\* A file that passed the gate holds nothing to rewrite: it is read, rewritten
\* to itself and left alone.
C3_Witness ==
    \E i \in Files :
        /\ log[i].called /\ log[i].passed /\ log[i].exc = ""
        /\ log[i].new = ReadOf(i)
        /\ ~log[i].opened /\ ~log[i].ret
        /\ \E j \in 1..Len(ReadOf(i)) : ReadOf(i)[j] = P6

(***************************************************************************)
(* C4.  A file without 'StyleSheet.create' is skipped: no rewrite function *)
(* is called on it, it is not written, False is returned.                  *)
(***************************************************************************)
C4_NoMarkerSkipped ==
    \A i \in Files :
        (log[i].called /\ NoMarkerLine(ReadOf(i))) =>
            /\ ~log[i].passed
            /\ ~log[i].opened
            /\ disk[i] = ReadOf(i)
            /\ ~log[i].ret

\* A skipped file that holds a declaration the rewrite would have changed.
C4_Witness ==
    \E i \in Files :
        /\ log[i].called /\ log[i].exc = ""
        /\ NoMarkerLine(ReadOf(i))
        /\ \E j \in 1..Len(ReadOf(i)) : ReadOf(i)[j] \in {P16, R12}

(***************************************************************************)
(* C5.  A file with more than 5 (v1) or 10 (v2) occurrences of             *)
(* 'deviceInfo.isTablet' is never handed to the rewrite functions and      *)
(* never written; a file that was read, holds 'StyleSheet.create' and has  *)
(* at most that many occurrences is handed to them.                        *)
(***************************************************************************)
C5_Limit == IF script = "v1" THEN 5 ELSE 10

C5_ThresholdGate ==
    \A i \in Files :
        log[i].called =>
            /\ MarkerCount(ReadOf(i)) > C5_Limit =>
                  (~log[i].passed /\ ~log[i].opened /\ disk[i] = ReadOf(i))
            /\ ( /\ log[i].exc # "read"
                 /\ ~NoMarkerLine(ReadOf(i))
                 /\ MarkerCount(ReadOf(i)) <= C5_Limit ) => log[i].passed

\* A file with exactly the threshold number of occurrences was rewritten.
C5_Witness ==
    \E i \in Files :
        /\ log[i].called /\ log[i].passed
        /\ MarkerCount(ReadOf(i)) = C5_Limit
        /\ log[i].ret

(***************************************************************************)
(* C6.  When the script is run a second time after a run that met no       *)
(* error, the second run opens no file for writing, leaves every file as   *)
(* it was and counts zero updated files, also for files that the second    *)
(* run hands to the rewrite functions again.                               *)
(***************************************************************************)
C6_SecondRunWritesNothing ==
    (run = 2 /\ ~err1) =>
        /\ count = 0
        /\ disk = start
        /\ \A i \in Files : ~log[i].opened /\ ~log[i].ret

\* The first run rewrote the file; the second handed it to the rewrite
\* functions again (its count of markers is within the threshold).
C6_Witness ==
    /\ run = 2 /\ ~err1 /\ pc = "done"
    /\ count1 > 0
    /\ \E i \in Files : log[i].called /\ log[i].passed /\ log[i].exc = ""

(***************************************************************************)
(* The lines of c that the pattern of update_styles_in_stylesheet hands to *)
(* process_stylesheet (group 1 of a match), from line i on; and the lines  *)
(* that lie after a line with StyleSheet.create( and before the next line  *)
(* that closes a block, whether or not the pattern matches there.          *)
(***************************************************************************)
RECURSIVE inside_matched(_, _)
inside_matched(c, i) ==
    IF i > Len(c) THEN {}
    ELSE IF c[i].k = "open" /\ block_end(c, i + 1, "A") > 0
         THEN (i + 1)..(block_end(c, i + 1, "A") - 1)
                  \cup inside_matched(c, block_end(c, i + 1, "A") + 1)
         ELSE inside_matched(c, i + 1)

in_some_block(c, j) ==
    \E a \in 1..(j - 1) :
        /\ c[a].k \in {"open", "openx"}
        /\ \A b \in (a + 1)..(j - 1) : c[b].k \notin {"close", "rbclose"}

Rewritten(i) == log[i].called /\ log[i].passed /\ log[i].exc # "transform"

Clean(i) == Rewritten(i) /\ log[i].exc = "" /\ ~log[i].rx

(***************************************************************************)
(* C7.  v2: every line outside the matched style blocks that is not an     *)
(* element comes out of the rewrite as it went in, also a spacing or       *)
(* fontSize declaration with a mapped literal.                             *)
(***************************************************************************)
C7_OutsideUntouched ==
    \A i \in Files :
        (script = "v2" /\ Rewritten(i)) =>
            \A j \in (1..Len(ReadOf(i))) \ inside_matched(ReadOf(i), 1) :
                ReadOf(i)[j].k # "elem" => log[i].new[j] = ReadOf(i)[j]

\* A mapped declaration outside the block stayed while the same declaration
\* inside the block was rewritten.
C7_Witness ==
    \E i \in Files :
        /\ script = "v2" /\ Rewritten(i) /\ log[i].ret
        /\ \E j \in (1..Len(ReadOf(i))) \ inside_matched(ReadOf(i), 1) :
              ReadOf(i)[j] \in {P16, F24} /\ disk[i][j] = ReadOf(i)[j]
        /\ \E j \in inside_matched(ReadOf(i), 1) :
              ReadOf(i)[j] = P16 /\ disk[i][j] # P16

(***************************************************************************)
(* C8.  v1: a spacing or fontSize declaration with a mapped literal that   *)
(* stands outside every StyleSheet.create block is left unchanged by       *)
(* add_tablet_specific_styles, in its result and in the file on disk.      *)
(***************************************************************************)
C8_V1ConfinedToBlocks ==
    \A i \in Files :
        (script = "v1" /\ Clean(i)) =>
            \A j \in 1..Len(ReadOf(i)) :
                ( /\ ReadOf(i)[j].k = "decl"
                  /\ ReadOf(i)[j].p \in SpacingProps_v1 \cup {"fontSize"}
                  /\ ~in_some_block(ReadOf(i), j) ) =>
                    log[i].new[j] = ReadOf(i)[j] /\ disk[i][j] = ReadOf(i)[j]

(***************************************************************************)
(* C9.  v2: of a spacing-family or fontSize declaration with a numeric     *)
(* literal inside a matched block, the value becomes the mapped token when *)
(* the literal is a key of the table, and stays exactly as written when    *)
(* it is not (6, 400, 4.5); the file is read, rewritten and written        *)
(* without error.                                                          *)
(***************************************************************************)
C9_IsKey(l) ==
    /\ Len(l.v) = 1
    /\ IF l.p = "fontSize"
       THEN \E px \in DOMAIN FONT_SIZE_MAP_v2 : ToString(px) = l.v[1]
       ELSE \E px \in DOMAIN SPACING_MAP_v2 : ToString(px) = l.v[1]

C9_Token(l) ==
    IF l.p = "fontSize"
    THEN FONT_SIZE_MAP_v2[CHOOSE px \in DOMAIN FONT_SIZE_MAP_v2 :
                              ToString(px) = l.v[1]]
    ELSE SPACING_MAP_v2[CHOOSE px \in DOMAIN SPACING_MAP_v2 :
                            ToString(px) = l.v[1]]

C9_KnownLiteralsOnly ==
    \A i \in Files :
        (script = "v2" /\ Clean(i)) =>
            \A j \in inside_matched(ReadOf(i), 1) :
                LET l == ReadOf(i)[j]
                    m == disk[i][j]
                IN  ( /\ l.k = "decl"
                      /\ l.p \in SpacingProps_v2 \cup {"fontSize"}
                      /\ Len(l.v) >= 1
                      /\ l.v[1] \in DigitAtoms ) =>
                        IF C9_IsKey(l)
                        THEN m.v = <<C9_Token(l)>>
                        ELSE m.v = l.v

(***************************************************************************)
(* C10.  v2, for a file that passes the gate and is read, rewritten and    *)
(* written without error: inside a matched block 'padding: 16,' becomes    *)
(* 'padding: spacing.lg,', 'fontSize: 24,' becomes 'fontSize:              *)
(* typography.h4,' and 'borderRadius: 12,' becomes 'borderRadius:          *)
(* deviceInfo.isTablet ? 14 : 12,'; the file is written and True is        *)
(* returned.                                                               *)
(***************************************************************************)
C10_Scenario ==
    \A i \in Files :
        (script = "v2" /\ Clean(i)) =>
            LET c == ReadOf(i)
                I == inside_matched(c, 1)
            IN  /\ \A j \in I :
                      /\ c[j] = P16 =>
                           log[i].new[j] = Decl("padding", 1, <<"spacing.lg">>, ",")
                      /\ c[j] = F24 =>
                           log[i].new[j] =
                               Decl("fontSize", 1, <<"typography.h4">>, ",")
                      /\ c[j] = R12 =>
                           log[i].new[j] =
                               Decl("borderRadius", 1,
                                    <<"deviceInfo.isTablet ? 14 : 12">>, ",")
                /\ (\E j \in I : c[j] \in {P16, F24, R12}) =>
                      (log[i].ret /\ disk[i] = log[i].new)

\* The file of the example, rewritten on disk.
C10_Witness ==
    \E i \in Files :
        /\ script = "v2" /\ log[i].called /\ log[i].ret
        /\ ReadOf(i) = Scenario
        /\ disk[i] = <<Open, Decl("padding", 1, <<"spacing.lg">>, ","),
                       Decl("fontSize", 1, <<"typography.h4">>, ","),
                       Decl("borderRadius", 1,
                            <<"deviceInfo.isTablet ? 14 : 12">>, ","), Close>>

(***************************************************************************)
(* C11.  The corner-radius rule and the icon-size rule commute: on every   *)
(* content handed to the rewrite, the radius rule followed by the icon     *)
(* rule gives the text the icon rule followed by the radius rule gives     *)
(* (v2: update_styles_in_stylesheet and update_icon_sizes).                *)
(***************************************************************************)
C11_RulesCommute ==
    \A i \in Files :
        Clean(i) =>
            LET c == ReadOf(i)
            IN  IF script = "v1"
                THEN icon_rule_v1(radius_rule_v1(c))
                         = radius_rule_v1(icon_rule_v1(c))
                ELSE update_icon_sizes(update_styles_in_stylesheet(c, FALSE))
                         = update_styles_in_stylesheet(update_icon_sizes(c), FALSE)

(***************************************************************************)
(* C12.  main never hands a denylisted file to process_file, under         *)
(* screens or under components: ResponsiveLayout.tsx in both scripts, and  *)
(* the responsive.ts module in v2; such a file is never rewritten.         *)
(***************************************************************************)
C12_Denylist(i) ==
    \/ walk[i].base = "ResponsiveLayout.tsx"
    \/ script = "v2" /\ walk[i].base = "responsive.tsx"

C12_DenylistedNeverProcessed ==
    \A i \in Files : C12_Denylist(i) => (~log[i].called /\ disk[i] = start[i])

(***************************************************************************)
(* C13.  v2: when the re.sub of update_styles_in_stylesheet raises for a   *)
(* file, the file on disk stays exactly as it was and process_file returns *)
(* False, also when the file holds elements update_icon_sizes rewrites.    *)
(***************************************************************************)
C13_RegexErrorKeepsFile ==
    \A i \in Files :
        (script = "v2" /\ log[i].called /\ log[i].rx) =>
            (disk[i] = ReadOf(i) /\ ~log[i].ret)

(***************************************************************************)
(* C14.  When the write-back of a changed file fails, on open or part-way  *)
(* through the write, process_file returns False and the file still holds  *)
(* its complete original content: it is never partial or empty.            *)
(***************************************************************************)
C14_FailedWriteKeepsOriginal ==
    \A i \in Files :
        (log[i].called /\ log[i].exc \in {"open", "write"}) =>
            (~log[i].ret /\ disk[i] = ReadOf(i))

(***************************************************************************)
(* C15.  The totals main prints match what the run did: when the summary   *)
(* is printed, the number of updated files it reports is the number of     *)
(* files whose content on disk the run changed, and the number of files    *)
(* v2 reports as processed is the number of files handed to process_file.  *)
(***************************************************************************)
C15_TotalsMatch ==
    pc = "done" =>
        /\ count = Cardinality({i \in Files : disk[i] # start[i]})
        /\ script = "v2" =>
              printed_processing = Cardinality({i \in Files : log[i].called})

(***************************************************************************)
(* C16.  v1 handles gap like the other spacing properties: a file that     *)
(* passes the gate and holds 'gap: N,' with N a key of SPACING_MAP is      *)
(* rewritten, unless reading or writing it fails, so that the line reads   *)
(* 'gap: <token>,', and the 'padding: 16,', 'fontSize: 24,' and            *)
(* 'borderRadius: 12,' of the same file are rewritten in the same run.     *)
(***************************************************************************)
C16_IsGap(l) ==
    /\ l.k = "decl" /\ l.p = "gap" /\ l.w = 1 /\ l.e = ","
    /\ Len(l.v) = 1 /\ l.v[1] \in DOMAIN SPACING_MAP_v1

C16_GapRewritten ==
    \A i \in Files :
        ( /\ script = "v1"
          /\ log[i].called /\ log[i].passed
          /\ log[i].exc \notin {"read", "open", "write"}
          /\ \E j \in 1..Len(ReadOf(i)) : C16_IsGap(ReadOf(i)[j]) ) =>
            /\ log[i].ret
            /\ \A j \in 1..Len(ReadOf(i)) :
                  LET l == ReadOf(i)[j]
                  IN  /\ C16_IsGap(l) => disk[i][j].v = <<SPACING_MAP_v1[l.v[1]]>>
                      /\ l = P16 => disk[i][j].v = <<"spacing.lg">>
                      /\ l = F24 => disk[i][j].v = <<"typography.h4">>
                      /\ l = R12 => disk[i][j].v = <<CondRadius12>>

(***************************************************************************)
(* C17.  v2: in a file rewritten without error, every element outside the  *)
(* style blocks with the attribute size={24} or size={20} comes out with   *)
(* the tablet-conditional scaled expression in its place, whatever the     *)
(* element, and an element with another size value comes out unchanged.    *)
(***************************************************************************)
C17_IconSizes ==
    \A i \in Files :
        (script = "v2" /\ Clean(i)) =>
            \A j \in (1..Len(ReadOf(i))) \ inside_matched(ReadOf(i), 1) :
                LET l == ReadOf(i)[j]
                IN  (l.k = "elem" /\ l.v = <<"braces">>) =>
                        IF l.n \in {20, 24}
                        THEN disk[i][j] = [l EXCEPT !.v = <<"cond">>]
                        ELSE disk[i][j] = l

(***************************************************************************)
(* C18.  Files are processed independently: a step of main changes the     *)
(* content and the outcome of no file other than the one of the loop, and  *)
(* two files of a batch that held the same content and met no error have   *)
(* the same outcome (changed flag and final content), wherever they stand  *)
(* in the walk and whatever the other files are.                           *)
(***************************************************************************)
C18_Frame ==
    \A i \in Files : i # idx => (disk'[i] = disk[i] /\ log'[i] = log[i])

C18_SameOutcome ==
    \A i, j \in Files :
        ( /\ log[i].called /\ log[i].exc = "" /\ ~log[i].rx
          /\ log[j].called /\ log[j].exc = "" /\ ~log[j].rx
          /\ start[i] = start[j] ) =>
            (log[i].ret = log[j].ret /\ disk[i] = disk[j])

C18_Independent == [][C18_Frame]_vars /\ []C18_SameOutcome

\* Two files with the same content, both rewritten, in a finished run.
C18_Witness ==
    /\ pc = "done"
    /\ Len(walk) = 2
    /\ start[1] = start[2]
    /\ log[1].called /\ log[1].ret /\ log[1].exc = ""
    /\ log[2].called /\ log[2].ret /\ log[2].exc = ""
    /\ disk[1] = disk[2] /\ disk[1] # start[1]

(***************************************************************************)
(* C19.  The time-entry requests of a batch are executed in parallel:      *)
(* when gather holds two or more coroutines that will send a POST, a state *)
(* follows in which the POST of one is sent and not yet answered while the *)
(* POST of another is sent, unless an exception ends the run first.        *)
(***************************************************************************)
C19_TwoInFlight ==
    \E i, j \in 1..Len(ck_tasks) :
        i # j /\ ck_tasks[i].st = "sent" /\ ck_tasks[j].st = "sent"

C19_TwoToSend ==
    /\ ck_pc = "gather"
    /\ Cardinality({i \in 1..Len(ck_tasks) :
                      /\ ck_tasks[i].st = "pending"
                      /\ has_project(ck_tasks[i].team)}) >= 2

C19_ParallelRequests ==
    C19_TwoToSend ~> (C19_TwoInFlight \/ ck_pc = "crashed")

\* What the event loop does instead: at most one POST is in flight.
C19_OneAtATime == ~C19_TwoInFlight

(***************************************************************************)
(* C20.  run_daily_tracking runs continuously: after every iteration of    *)
(* its loop another iteration starts, also when a time-entry request of    *)
(* the batch got a non-201 response or raised.                             *)
(***************************************************************************)
C20_RunsContinuously == (ck_pc \in {"gather", "wait"}) ~> (ck_pc = "top")

(***************************************************************************)
(* C21.  A batch of create_time_entry calls is issued only in an iteration *)
(* whose clock hour h satisfies 6 <= h < 20, a window of 14 hours; in      *)
(* every other hour the iteration only waits.                              *)
(***************************************************************************)
C21_Batching == ck_pc \in {"build", "gather"}

C21_OnlyFrom6To20 == C21_Batching => (6 <= ck_hour /\ ck_hour < 20)

\* What the code does: the hours of a batch are 6..20, fifteen of them.
C21_FifteenHours == C21_Batching => (6 <= ck_hour /\ ck_hour <= 20)

(***************************************************************************)
(* C22.  setup_projects sends a create POST only for a name that is not in *)
(* the fetched list; when it has run to its end a POST was sent for each   *)
(* of the four names not in the list and for no other, the id of each name *)
(* in the list is the id from the list, and self.projects holds an id for  *)
(* exactly the names found or created with 201.                            *)
(***************************************************************************)
C22_SetupDone == ck_pc \notin {"init", "crashed", "off"} /\ ck_setup.fetched

C22_CreatesOnlyMissing ==
    /\ ck_setup.posted \cap ck_setup.existing = {}
    /\ C22_SetupDone =>
          /\ ck_setup.posted = ProjectNameSet \ ck_setup.existing
          /\ ck_setup.created \subseteq ck_setup.posted
          /\ DOMAIN ck_projects = ck_setup.existing \cup ck_setup.created
          /\ \A n \in ck_setup.existing : ck_projects[n] = FoundId(n)
          /\ \A n \in ck_setup.created : ck_projects[n] = CreatedId(n)

C22_Witness ==
    /\ C22_SetupDone
    /\ ck_setup.existing # {}
    /\ ck_setup.created # {}
    /\ ck_setup.created # ck_setup.posted

(***************************************************************************)
(* C23.  In a finished working-hours batch each of the four teams has      *)
(* between 3 and 5 create_time_entry calls, each for a member of that      *)
(* team, no member has two calls, and the batch holds 12 to 20 calls.      *)
(***************************************************************************)
C23_CallsOf(t) == {i \in 1..Len(ck_tasks) : ck_tasks[i].team = t}

C23_BatchShape ==
    ck_pc = "gather" =>
        /\ \A t \in TeamSet :
              /\ 3 <= Cardinality(C23_CallsOf(t))
              /\ Cardinality(C23_CallsOf(t)) <= 5
              /\ \A i \in C23_CallsOf(t) :
                    \E j \in 1..Len(members[t]) :
                        ck_tasks[i].member = members[t][j]
        /\ \A i, j \in 1..Len(ck_tasks) :
              i # j => ck_tasks[i].member # ck_tasks[j].member
        /\ 12 <= Len(ck_tasks) /\ Len(ck_tasks) <= 20

C23_Witness ==
    /\ ck_pc = "gather"
    /\ Cardinality(C23_CallsOf("backend")) = 3
    /\ Cardinality(C23_CallsOf("quality")) = 5
    /\ ck_tasks[1].member # members["backend"][1]

(***************************************************************************)
(* C25.  No time-entry POST is sent for a team whose project id is not in  *)
(* self.projects; when initialize did not connect, run_daily_tracking      *)
(* runs and no time-entry request is sent.                                 *)
(***************************************************************************)
C25_Posted(i) == ck_tasks[i].st \in {"sent", "created", "rejected", "raised"}

C25_NoPostWithoutProject ==
    /\ \A i \in 1..Len(ck_tasks) :
          C25_Posted(i) => project_map[ck_tasks[i].team] \in DOMAIN ck_projects
    /\ (ck_pc # "init" /\ ~ck_setup.connected) =>
          /\ ck_projects = <<>>
          /\ \A i \in 1..Len(ck_tasks) : ~C25_Posted(i)

C25_Witness ==
    /\ ck_pc = "wait"
    /\ ~ck_setup.connected
    /\ Len(ck_tasks) >= 2
    /\ \A i \in 1..Len(ck_tasks) : ck_tasks[i].st = "noproject"

(***************************************************************************)
(* C24.  stop_timer.py sends the end-time PATCH only for an entry id saved *)
(* by a successful start and not already stopped by an earlier successful  *)
(* stop_timer run; when no timer is running it sends no request.           *)
(***************************************************************************)
C24_PatchSent == tm_last.script = "stop_timer" /\ tm_last.patched # <<>>

C24_StopsOnlyRunning == C24_PatchSent => tm_last.was_running

\* What the code does: the id of the PATCH is the id of the last started
\* entry, running or not.
C24_PatchesLastStarted ==
    C24_PatchSent => tm_last.patched = <<Len(tm_entries)>>

(***************************************************************************)
(* C26.  start_timer.py and test_backend_timer.py send the time-entry POST *)
(* with the id of the project 'THE REAL CRYB' only: when the project list  *)
(* is not fetched or has no project of that name, no POST is sent and no   *)
(* entry is created.                                                       *)
(***************************************************************************)
C26_StartRan == tm_last.script \in {"start_timer", "test_backend_timer"}

C26_OnlyInTheProject ==
    /\ (C26_StartRan /\ tm_last.posted) => tm_last.project = TheProject
    /\ \A i \in 1..Len(tm_entries) : tm_entries[i].project = TheProject

\* What the code does: the POST is sent whenever the GET returned.
C26_AlwaysPosts ==
    C26_StartRan => (tm_last.posted <=> tm_last.list # "raised")

(***************************************************************************)
(* C27.  In auto-build.py, once the timeout of a timed step (eas init, eas *)
(* build, the fallback eas build) has fired and the script has moved on,   *)
(* the child process of that step is not running.                          *)
(***************************************************************************)
C27_Child(step) ==
    CASE step = "init" -> "init_bash"
      [] step = "build" -> "build_eas"
      [] OTHER -> "fallback_bash"

C27_NoChildLeftRunning ==
    \A step \in ab_expired : ab_procs[C27_Child(step)] # "running"

\* What the code does: the children of the init and build steps are killed.
C27_InitAndBuildKilled ==
    \A step \in ab_expired \cap {"init", "build"} :
        ab_procs[C27_Child(step)] = "killed"

=============================================================================
